---- MODULE Spec2Model ----
(***************************************************************************)
(* The event loop of rust-pentago (src/main.rs): GameState, GameState::new *)
(* and run_app.  The cursor is the usize held by TableState::selected; it  *)
(* is updated through an i32 computation with Rust's truncating `%` and    *)
(* two `as` casts, which are modelled bit-exactly on 16-bit limbs because  *)
(* a 64-bit usize does not fit the model checker's integers.               *)
(***************************************************************************)
EXTENDS Integers, Sequences, FiniteSets, TLC

VARIABLES
    selected_cell,   \* state.selected_cell.selected().unwrap(): a usize, as limbs
    active_player,   \* state.active_player
    can_place,       \* state.can_place
    can_turn,        \* state.can_turn
    event,           \* the value last returned by event::read()
    pc,              \* "loop" while run_app iterates, "returned" afterwards
    res              \* the io::Result<()> run_app returned, "none" before

vars == <<selected_cell, active_player, can_place, can_turn, event, pc, res>>

game == <<selected_cell, active_player, can_place, can_turn>>

----------------------------------------------------------------------------
(* Machine integers.  A usize is 64 bits wide, written as four 16-bit      *)
(* limbs, least significant first; an i32 is a plain integer in            *)
(* -2^31 .. 2^31 - 1.                                                      *)

Limb == 2^16

UsizeLimbs == 64 \div 16

(* `x as usize` for an i32 x: sign extension to 64 bits. *)
I32AsUsize(x) ==
    [n \in 1..UsizeLimbs |->
        IF n = 1 THEN x % Limb
        ELSE IF n = 2 THEN (x \div Limb) % Limb
        ELSE IF x < 0 THEN Limb - 1 ELSE 0]

(* `u as i32` for a usize u: the low 32 bits, read as two's complement. *)
UsizeAsI32(u) ==
    IF u[2] >= Limb \div 2
    THEN (u[2] - Limb) * Limb + u[1]
    ELSE u[2] * Limb + u[1]

(* Rust's `a % n` on i32 with n > 0: the remainder takes the sign of a. *)
Rem(a, n) == IF a >= 0 THEN a % n ELSE -((-a) % n)

(* The modulus of the cursor update. *)
Cells == 49

(* The usize whose value is the index i, and the test for being one. *)
Index(i) == I32AsUsize(i)

IsIndex(u) == \E i \in 0..(Cells - 1) : u = Index(i)

----------------------------------------------------------------------------
(* Events.  event::read() yields key events and other terminal events      *)
(* (resize, mouse); KeyCodes is a sample that covers every arm of the      *)
(* match in run_app, with "Enter", "Space" and "x" falling to `_`.         *)

KeyCodes == {"q", "w", "a", "s", "d", "Enter", "Space", "x"}

KeyEvent(c) == [kind |-> "Key", code |-> c]

OtherEvents == {[kind |-> "Resize", code |-> ""], [kind |-> "Mouse", code |-> ""]}

Events == {KeyEvent(c) : c \in KeyCodes} \cup OtherEvents

NoEvent == [kind |-> "None", code |-> ""]

(* The arms of the match that yield a movement. *)
MovementDefaultOne(c) ==
    CASE c = "w" -> -7
      [] c = "a" -> -1
      [] c = "s" -> 1
      [] c = "d" -> 7
      [] OTHER   -> 1

Movement(c) ==
    CASE c = "w" -> -7
      [] c = "a" -> -1
      [] c = "s" -> 1
      [] c = "d" -> 7
      [] OTHER   -> 0

(* The keys with a movement arm of their own. *)
MoveCodes == {"w", "a", "s", "d"}

(* The keys that are neither a movement key nor quit: the `_` arm. *)
PlainCodes == KeyCodes \ ({"q"} \cup MoveCodes)

(* The movement key whose delta is the negation of c's. *)
Opposite(c) == CHOOSE o \in MoveCodes : Movement(o) = -Movement(c)

(* The new selection: ((selected as i32 + movement) % 49) as usize.  The   *)
(* i32 sum cannot overflow: every stored value reads back as an i32 in     *)
(* -48..48 and |movement| <= 7.                                            *)
Select(u, movement) == I32AsUsize(Rem(UsizeAsI32(u) + movement, Cells))

----------------------------------------------------------------------------
(* GameState::new() followed by selected_cell.select(Some(0)). *)
Init ==
    /\ selected_cell = Index(0)
    /\ active_player = "One"
    /\ can_place = TRUE
    /\ can_turn = TRUE
    /\ event = NoEvent
    /\ pc = "loop"
    /\ res = "none"

(* One iteration of the loop in which draw and read succeed. *)
HandleEventMoveFlips(e) ==
    /\ pc = "loop"
    /\ event' = e
    /\ IF e.kind = "Key"
       THEN IF e.code = "q"
            THEN /\ pc' = "returned"
                 /\ res' = "Ok"
                 /\ UNCHANGED <<selected_cell, can_place>>
            ELSE /\ selected_cell' = Select(selected_cell, Movement(e.code))
                 /\ can_place' = IF Movement(e.code) # 0 THEN ~can_place ELSE can_place
                 /\ UNCHANGED <<pc, res>>
       ELSE UNCHANGED <<selected_cell, can_place, pc, res>>
    /\ UNCHANGED <<active_player, can_turn>>

HandleEventQuitFallsThrough(e) ==
    /\ pc = "loop"
    /\ event' = e
    /\ IF e.kind = "Key"
       THEN /\ selected_cell' = Select(selected_cell, Movement(e.code))
            /\ UNCHANGED <<pc, res>>
       ELSE UNCHANGED <<selected_cell, pc, res>>
    /\ UNCHANGED <<active_player, can_place, can_turn>>

HandleEvent(e) ==
    /\ pc = "loop"
    /\ event' = e
    /\ IF e.kind = "Key"
       THEN IF e.code = "q"
            THEN /\ pc' = "returned"
                 /\ res' = "Ok"
                 /\ UNCHANGED selected_cell
            ELSE /\ selected_cell' = Select(selected_cell, Movement(e.code))
                 /\ UNCHANGED <<pc, res>>
       ELSE UNCHANGED <<selected_cell, pc, res>>
    /\ UNCHANGED <<active_player, can_place, can_turn>>

(* terminal.draw(..)? or event::read()? returns an io::Error. *)
IoFailure ==
    /\ pc = "loop"
    /\ pc' = "returned"
    /\ res' = "Err"
    /\ UNCHANGED <<game, event>>

Next ==
    \/ \E e \in Events : HandleEvent(e)
    \/ IoFailure

Spec == Init /\ [][Next]_vars

----------------------------------------------------------------------------
TypeOK ==
    /\ selected_cell \in [1..UsizeLimbs -> 0..(Limb - 1)]
    /\ active_player \in {"One", "Two"}
    /\ can_place \in BOOLEAN
    /\ can_turn \in BOOLEAN
    /\ event \in Events \cup {NoEvent}
    /\ pc \in {"loop", "returned"}
    /\ res \in {"none", "Ok", "Err"}

----------------------------------------------------------------------------
(* The commands of the specification, as the loop receives them.  The      *)
(* deltas -7, +7, -1, +1 are Up, Down, Left, Right; the source binds no    *)
(* key to ActivateCell, so every key of the `_` arm stands for it.         *)

ActivateCodes == PlainCodes

(* The 7x7 board of the specification: row 3 and column 3 are dividers. *)
IsDivider(i) == i \div 7 = 3 \/ i % 7 = 3

(* C1: in every reachable state the cursor is an index in [0,49). *)
C1_CursorInRange == IsIndex(selected_cell)

(* C2: a move with delta m from an index i in [0,49) leaves the cursor on  *)
(* the non-negative residue of (i + m) modulo 49.                          *)
C2_NonNegativeModulo ==
    [][\A c \in MoveCodes :
          (HandleEvent(KeyEvent(c)) /\ IsIndex(selected_cell))
              => selected_cell' =
                     Index((UsizeAsI32(selected_cell) + Movement(c)) % Cells)]_vars

(* C3: from every index i in [0,49), a move followed by the move with the  *)
(* negated delta brings the cursor back to i.                              *)
C3_MoveInvertible ==
    IsIndex(selected_cell) =>
        \A c \in MoveCodes :
            Select(Select(selected_cell, Movement(c)), Movement(Opposite(c)))
                = selected_cell

(* C4: exactly one of can_place and can_turn is true in every reachable    *)
(* state, and before the first command can_place is true and can_turn is   *)
(* false.                                                                  *)
C4_FlagsFromPhase ==
    /\ can_place # can_turn
    /\ event = NoEvent => (can_place /\ ~can_turn)

(* C5: ActivateCell carries out the turn cycle: on a free playable cell,   *)
(* when placing is allowed, it leaves can_place false and can_turn true;   *)
(* when turning is allowed (and placing is not), it toggles the active     *)
(* player, sets can_place again and keeps the cursor.                      *)
C5_TurnCycle ==
    [][\A c \in ActivateCodes :
          (/\ HandleEvent(KeyEvent(c))
           /\ IsIndex(selected_cell)
           /\ ~IsDivider(UsizeAsI32(selected_cell)))
              => /\ can_place => (~can_place' /\ can_turn')
                 /\ (can_turn /\ ~can_place) =>
                        /\ active_player' # active_player
                        /\ can_place'
                        /\ selected_cell' = selected_cell]_vars

(* C6: ActivateCell with the cursor on the divider cell 3 reports the      *)
(* DividerCell error to the caller and leaves the game state unchanged.    *)
C6_DividerCellReported ==
    [][\A c \in ActivateCodes :
          (HandleEvent(KeyEvent(c)) /\ selected_cell = Index(3))
              => (res' = "DividerCell" /\ UNCHANGED game)]_vars

(* C7: a movement key is accepted whenever the loop runs, and it leaves    *)
(* active_player, can_place and can_turn as they were.                     *)
C7_MoveChangesOnlyCursor ==
    [][\A c \in MoveCodes :
          /\ pc = "loop" => ENABLED HandleEvent(KeyEvent(c))
          /\ HandleEvent(KeyEvent(c))
                => UNCHANGED <<active_player, can_place, can_turn>>]_vars

C7_Witness ==
    /\ event \in {KeyEvent(c) : c \in MoveCodes}
    /\ selected_cell # Index(0)
    /\ pc = "loop"

(* C8: a key that is neither a movement key nor quit leaves the stored     *)
(* cursor and the rest of the game state unchanged, also when the stored   *)
(* cursor is outside [0,49).                                               *)
C8_PlainKeyChangesNothing ==
    [][\A c \in PlainCodes : HandleEvent(KeyEvent(c)) => UNCHANGED game]_vars

C8_Witness ==
    /\ event \in {KeyEvent(c) : c \in PlainCodes}
    /\ ~IsIndex(selected_cell)

(* C9: 'q' is accepted whenever the loop runs, ends it with Ok and leaves  *)
(* the game state unchanged; no other key or event ends the loop.          *)
C9_QuitOnlyExit ==
    [][/\ pc = "loop" => ENABLED HandleEvent(KeyEvent("q"))
       /\ \A e \in Events :
             HandleEvent(e) =>
                 /\ pc' = "returned" <=> e = KeyEvent("q")
                 /\ e = KeyEvent("q") => (res' = "Ok" /\ UNCHANGED game)]_vars

C9_Witness ==
    /\ pc = "returned"
    /\ res = "Ok"
    /\ event = KeyEvent("q")
    /\ selected_cell # Index(0)

(* C10: 'w' and 's' change the cursor by -7 and +7, 'a' and 'd' by -1 and  *)
(* +1 (stated where the move stays inside [0,49), so no wrap is involved). *)
WasdDelta(c) ==
    CASE c = "w" -> -7
      [] c = "s" -> 7
      [] c = "a" -> -1
      [] c = "d" -> 1

C10_WasdMapping ==
    [][\A c \in {"w", "a", "s", "d"} :
          (/\ HandleEvent(KeyEvent(c))
           /\ IsIndex(selected_cell)
           /\ UsizeAsI32(selected_cell) + WasdDelta(c) \in 0..(Cells - 1))
              => selected_cell' = Index(UsizeAsI32(selected_cell) + WasdDelta(c))]_vars

====
